---- MODULE Spec2Model ----
(***************************************************************************)
(* Model of the elections scraper src/main.py (PS 2017 NSS, volby.cz).     *)
(*                                                                         *)
(* Text is a sequence of tokens.  A token is one character ("0", " ",      *)
(* ",", the non-breaking space NBSP, the tab TAB) or a run of letters      *)
(* ("A", "valid", "X"), which behaves as a letter does: it is no digit, no *)
(* whitespace and no comma.  A document (soup) is the sequence of its <tr> *)
(* rows, a row the sequence of its <td> cells, a cell its headers          *)
(* attribute (a list) and its child nodes (text nodes and <a> anchors).    *)
(***************************************************************************)
EXTENDS Integers, Sequences, FiniteSets, TLC

VARIABLES pc, argc, munis, party_cols, rows, header, fetched, file, exc, exit,
          input, ret

vars == <<pc, argc, munis, party_cols, rows, header, fetched, file, exc, exit,
          input, ret>>

Range(s) == {s[i] : i \in 1..Len(s)}

(***************************************************************************)
(* Bounds of the model.                                                    *)
(***************************************************************************)
MaxTextLen == 3
MaxListRows == 2
MaxPartyRows == 3
MaxWriteRows == 2
MaxArgc == 4

(***************************************************************************)
(* Python str primitives.                                                  *)
(***************************************************************************)
NBSP == "nbsp"
TAB == "tab"
Digits == {"0", "1", "2", "3", "4", "5", "6", "7", "8", "9"}

DigitVal(c) ==
    CASE c = "0" -> 0 [] c = "1" -> 1 [] c = "2" -> 2 [] c = "3" -> 3
      [] c = "4" -> 4 [] c = "5" -> 5 [] c = "6" -> 6 [] c = "7" -> 7
      [] c = "8" -> 8 [] c = "9" -> 9

DigitChar(d) ==
    CASE d = 0 -> "0" [] d = 1 -> "1" [] d = 2 -> "2" [] d = 3 -> "3"
      [] d = 4 -> "4" [] d = 5 -> "5" [] d = 6 -> "6" [] d = 7 -> "7"
      [] d = 8 -> "8" [] d = 9 -> "9"

\* str.isspace of one character
isspace(c) == c \in {" ", NBSP, TAB}

\* str.isdigit: non-empty and every character a digit
isdigit(s) == s # <<>> /\ \A i \in 1..Len(s) : s[i] \in Digits

RECURSIVE lstrip(_)
lstrip(s) == IF s # <<>> /\ isspace(Head(s)) THEN lstrip(Tail(s)) ELSE s

RECURSIVE rstrip(_)
rstrip(s) ==
    IF s # <<>> /\ isspace(s[Len(s)]) THEN rstrip(SubSeq(s, 1, Len(s) - 1)) ELSE s

\* str.strip()
strip(s) == rstrip(lstrip(s))

\* str.replace(c, "")
replace(s, c) == SelectSeq(s, LAMBDA x : x # c)

\* s.split(c, 1)[0]
RECURSIVE split_head(_, _)
split_head(s, c) ==
    IF s = <<>> \/ Head(s) = c THEN <<>> ELSE <<Head(s)>> \o split_head(Tail(s), c)

\* int(s) of a non-empty string of decimal digits
RECURSIVE int(_)
int(s) ==
    IF s = <<>> THEN 0
    ELSE int(SubSeq(s, 1, Len(s) - 1)) * 10 + DigitVal(s[Len(s)])

\* str(n) of a non-negative int, as csv.writer formats a number
RECURSIVE str(_)
str(n) == IF n < 10 THEN <<DigitChar(n)>> ELSE str(n \div 10) \o <<DigitChar(n % 10)>>

\* sep.join(strs)
RECURSIVE join(_, _)
join(strs, sep) ==
    IF strs = <<>> THEN <<>>
    ELSE IF Len(strs) = 1 THEN strs[1]
    ELSE strs[1] \o sep \o join(Tail(strs), sep)

\* the first element of s as an optional value
Opt(s) == IF s = <<>> THEN <<>> ELSE <<s[1]>>

RECURSIVE Flatten(_)
Flatten(ss) == IF ss = <<>> THEN <<>> ELSE Head(ss) \o Flatten(Tail(ss))

(***************************************************************************)
(* The document tree (BeautifulSoup).  An optional value (Python's None or *)
(* a value) is a sequence of length 0 or 1.                                *)
(***************************************************************************)
None == "None"

TextNode(t) == [tag |-> "text", text |-> t, attrs |-> {}, href |-> <<>>]
Anchor(t, h) == [tag |-> "a", text |-> t, attrs |-> {"href"}, href |-> h]
AnchorNoHref(t) == [tag |-> "a", text |-> t, attrs |-> {}, href |-> <<>>]
Td(hs, ns) == [headers |-> hs, nodes |-> ns]

\* a.get("href", ""), and the truth value of a.get("href")
get_href(a) == IF "href" \in a.attrs THEN a.href ELSE <<>>
has_href(a) == get_href(a) # <<>>

\* tag.get_text(sep, strip=True): the stripped, non-empty strings joined by sep
get_text(nodes, sep) ==
    join(SelectSeq([i \in 1..Len(nodes) |-> strip(nodes[i].text)],
                   LAMBDA t : t # <<>>), sep)

\* td.find("a") (<<>> when there is none), tr.find_all("a")
find_all_a(nodes) == SelectSeq(nodes, LAMBDA n : n.tag = "a")
find_a(td) == Opt(find_all_a(td.nodes))
row_anchors(tr) == find_all_a(Flatten([i \in 1..Len(tr) |-> tr[i].nodes]))

\* a header such as "t1sa2" is the pair <<"t1", "sa2">>
endswith(h, suffix) == h[2] = suffix

\* soup.find("td", attrs={"headers": id}): the first cell, in document order,
\* whose headers list holds id (<<>> when there is none)
find_td(doc, id) ==
    Opt(SelectSeq(Flatten(doc), LAMBDA td : <<"", id>> \in Range(td.headers)))

(***************************************************************************)
(* urllib.parse.urljoin.  A URL is <<directory, page, query>>; an href is  *)
(* absolute (it starts with a directory), a query alone, or a page with    *)
(* its query.                                                              *)
(***************************************************************************)
Dirs == {"https://volby.cz/pls/ps2017nss/", "https://example.org/"}
Queries == {"?xnumnuts=2101", "?xobec=1", "?xobec=2", "?xvyber=1"}

urljoin(base, href) ==
    IF href = <<>> THEN base
    ELSE IF Head(href) \in Dirs THEN href
    ELSE IF Head(href) \in Queries THEN SubSeq(base, 1, 2) \o href
    ELSE SubSeq(base, 1, 1) \o href

(***************************************************************************)
(* clean_int                                                               *)
(***************************************************************************)
\* a faulty variant: the branch for a decimal comma is missing
clean_int_digits_only(text) ==
    LET s == strip(replace(replace(text, NBSP), " "))
        d == SelectSeq(s, LAMBDA ch : ch \in Digits)
    IN IF d # <<>> THEN int(d) ELSE 0

clean_int(text) ==
    LET s == strip(replace(replace(text, NBSP), " "))
    IN IF s = <<>> THEN 0
       ELSE IF "," \in Range(s) /\ isdigit(replace(s, ","))
            THEN LET h == split_head(s, ",") IN IF h # <<>> THEN int(h) ELSE 0
            ELSE LET d == SelectSeq(s, LAMBDA ch : ch \in Digits)
                 IN IF d # <<>> THEN int(d) ELSE 0

(***************************************************************************)
(* parse_summary                                                           *)
(***************************************************************************)
summary_get(doc, headers_id) ==
    LET td == find_td(doc, headers_id)
    IN IF td # <<>> THEN clean_int(get_text(td[1].nodes, <<>>)) ELSE 0

parse_summary(doc) ==
    [registered |-> summary_get(doc, "sa2"),
     envelopes |-> summary_get(doc, "sa3"),
     valid |-> summary_get(doc, "sa6")]

(***************************************************************************)
(* parse_parties                                                           *)
(***************************************************************************)
NoFields == [pno |-> <<>>, pname |-> <<>>, votes |-> <<>>]

\* the three ifs of the loop "for h in headers"
RECURSIVE scan_headers(_, _, _)
scan_headers(td, hs, acc) ==
    IF hs = <<>> THEN acc
    ELSE LET h == Head(hs)
             txt == get_text(td.nodes, <<>>)
             a1 == IF endswith(h, "sa1") /\ isdigit(txt)
                   THEN [acc EXCEPT !.pno = <<int(txt)>>] ELSE acc
             a2 == IF endswith(h, "sb1")
                   THEN [a1 EXCEPT !.pname = <<get_text(td.nodes, <<" ">>)>>] ELSE a1
             a3 == IF endswith(h, "sa2")
                   THEN [a2 EXCEPT !.votes = <<clean_int(txt)>>] ELSE a2
         IN scan_headers(td, Tail(hs), a3)

\* the loop "for td in tds" of one row
RECURSIVE scan_tds(_, _)
scan_tds(tds, acc) ==
    IF tds = <<>> THEN acc
    ELSE scan_tds(Tail(tds), scan_headers(Head(tds), Head(tds).headers, acc))

row_fields(tr) == scan_tds(tr, NoFields)

\* "if pno is None or not pname or votes is None: continue"
row_complete(f) == f.pno # <<>> /\ f.pname \notin {<<>>, << <<>> >>} /\ f.votes # <<>>

\* a faulty variant: a later row of a party number replaces the earlier one
RECURSIVE collect_keep_last(_, _, _)
collect_keep_last(trs, seen, parties) ==
    IF trs = <<>> THEN parties
    ELSE LET f == row_fields(Head(trs))
         IN IF ~row_complete(f) THEN collect_keep_last(Tail(trs), seen, parties)
            ELSE collect_keep_last(Tail(trs), seen \cup {f.pno[1]},
                     Append(SelectSeq(parties, LAMBDA p : p[1] # f.pno[1]),
                            <<f.pno[1], f.pname[1], f.votes[1]>>))

\* the loop "for tr in soup.find_all('tr')" with its seen set
RECURSIVE collect_parties(_, _, _)
collect_parties(trs, seen, parties) ==
    IF trs = <<>> THEN parties
    ELSE LET f == row_fields(Head(trs))
         IN IF ~row_complete(f) THEN collect_parties(Tail(trs), seen, parties)
            ELSE IF f.pno[1] \in seen THEN collect_parties(Tail(trs), seen, parties)
            ELSE collect_parties(Tail(trs), seen \cup {f.pno[1]},
                     Append(parties, <<f.pno[1], f.pname[1], f.votes[1]>>))

\* list.sort(key=lambda x: x[0]): a stable sort, here by insertion
RECURSIVE insert_by_pno(_, _)
insert_by_pno(sorted, p) ==
    IF sorted = <<>> THEN <<p>>
    ELSE IF sorted[Len(sorted)][1] <= p[1] THEN Append(sorted, p)
    ELSE Append(insert_by_pno(SubSeq(sorted, 1, Len(sorted) - 1), p), sorted[Len(sorted)])

RECURSIVE sort_by_pno(_)
sort_by_pno(ps) ==
    IF ps = <<>> THEN <<>>
    ELSE insert_by_pno(sort_by_pno(SubSeq(ps, 1, Len(ps) - 1)), ps[Len(ps)])

parse_parties(doc) == sort_by_pno(collect_parties(doc, {}, <<>>))

(***************************************************************************)
(* find_muni_link, parse_municipalities                                    *)
(***************************************************************************)
find_muni_link(tr, base_url) ==
    IF tr = <<>> THEN <<>>
    ELSE LET first2 == SubSeq(tr, 1, IF Len(tr) < 2 THEN Len(tr) ELSE 2)
             \* for td in tds[:2]: a = td.find("a")
             code_as == Flatten([i \in 1..Len(first2) |-> find_a(first2[i])])
             digit_a == Opt(SelectSeq(code_as,
                              LAMBDA a : isdigit(strip(a.text)) /\ has_href(a)))
             \* for a in tr.find_all("a"): the first "X" link with an href
             x_a == Opt(SelectSeq(row_anchors(tr),
                          LAMBDA a : strip(a.text) \in {<<"X">>, <<"x">>} /\ has_href(a)))
             \* for a in tr.find_all("a"): the first link to a results page
             ps_a == Opt(SelectSeq(row_anchors(tr),
                           LAMBDA a : get_href(a) # <<>>
                                      /\ ("ps311" \in Range(get_href(a))
                                          \/ "ps32" \in Range(get_href(a)))))
         IN IF digit_a # <<>> THEN urljoin(base_url, digit_a[1].href)
            ELSE IF x_a # <<>> THEN urljoin(base_url, x_a[1].href)
            ELSE IF ps_a # <<>> THEN urljoin(base_url, get_href(ps_a[1]))
            ELSE <<>>

\* the code of a row: the first cell's first anchor's text, else the cell's text
row_code(tr) ==
    LET code_a == find_a(tr[1])
    IN IF code_a # <<>> THEN strip(code_a[1].text) ELSE get_text(tr[1].nodes, <<>>)

\* a faulty variant: the digit check of the code is dropped
collect_munis_any_code(trs, unit_url) ==
    LET keep(tr) == Len(tr) >= 2 /\ find_muni_link(tr, unit_url) # <<>>
        kept == SelectSeq(trs, keep)
    IN [i \in 1..Len(kept) |->
           [code |-> row_code(kept[i]),
            name |-> get_text(kept[i][2].nodes, <<" ">>),
            link |-> find_muni_link(kept[i], unit_url)]]

\* the loop of parse_municipalities: the rows that are not skipped
collect_munis(trs, unit_url) ==
    LET keep(tr) == Len(tr) >= 2 /\ isdigit(row_code(tr))
                    /\ find_muni_link(tr, unit_url) # <<>>
        kept == SelectSeq(trs, keep)
    IN [i \in 1..Len(kept) |->
           [code |-> row_code(kept[i]),
            name |-> get_text(kept[i][2].nodes, <<" ">>),
            link |-> find_muni_link(kept[i], unit_url)]]

\* parse_municipalities on the fetched listing document: the list, or the
\* ValueError raised when it is empty
parse_municipalities(doc, unit_url) ==
    LET out == collect_munis(doc, unit_url)
    IN IF out = <<>> THEN [exc |-> "ValueError", val |-> <<>>]
       ELSE [exc |-> None, val |-> out]

(***************************************************************************)
(* Inputs: texts, cells, rows and pages.                                   *)
(***************************************************************************)
Chars == {"0", "1", "2", " ", NBSP, TAB, ",", "a"}
Texts == UNION {[1..k -> Chars] : k \in 0..MaxTextLen}

\* sequences of at most n elements of the pool (a sequence)
SeqsUpTo(pool, n) ==
    UNION {{[i \in 1..k |-> pool[f[i]]] : f \in [1..k -> 1..Len(pool)]} : k \in 0..n}

Cell(t) == Td(<<>>, <<TextNode(t)>>)
HCell(h, t) == Td(<<h>>, <<TextNode(t)>>)

\* a party row as this parser reads it: number, name, votes, percentage
PartyRow(n, nm, v) ==
    <<HCell(<<"t1", "sa1">>, n), HCell(<<"t1", "sb1">>, nm),
      HCell(<<"t1", "sa2">>, v), HCell(<<"t1", "sa3">>, <<"5", "0", ",", "0", "0">>)>>

PartyRowPool ==
    <<PartyRow(<<"1">>, <<"A">>, <<"5">>),
      PartyRow(<<"1">>, <<"B">>, <<"7">>),
      PartyRow(<<"2">>, <<"A">>, <<"1", NBSP, "0">>),
      PartyRow(<<"2">>, <<"B">>, <<"5">>),
      PartyRow(<<"0">>, <<"B">>, <<"0">>),
      \* a heading-like row: the number is no digit string
      PartyRow(<<"a">>, <<"A">>, <<"5">>),
      \* the name cell is empty
      PartyRow(<<"2">>, <<>>, <<"5">>),
      \* no votes cell
      <<HCell(<<"t1", "sa1">>, <<"1">>), HCell(<<"t1", "sb1">>, <<"A">>)>>,
      \* the second sub-table of a split table: its headers start with t2
      <<HCell(<<"t2", "sa1">>, <<"1">>), HCell(<<"t2", "sb1">>, <<"A">>),
        HCell(<<"t2", "sa2">>, <<"5">>)>>,
      \* a cell with two headers, and two number cells in one row
      <<Td(<<<<"t1", "sa1">>, <<"t1", "sb1">>>>, <<TextNode(<<"2">>)>>),
        HCell(<<"t1", "sa1">>, <<"1">>), HCell(<<"t1", "sa2">>, <<"7">>)>>,
      \* a row without cells
      <<>> >>

PartyPages == SeqsUpTo(PartyRowPool, MaxPartyRows)

UnitUrl == <<"https://volby.cz/pls/ps2017nss/", "ps32", "?xnumnuts=2101">>

ListRowPool ==
    <<\* code link, name, X link
      <<Td(<<>>, <<Anchor(<<"5", "1">>, <<"ps311", "?xobec=1">>)>>),
        Cell(<<"Alfa">>),
        Td(<<>>, <<Anchor(<<"X">>, <<"ps33", "?xobec=1">>)>>)>>,
      \* plain code, name in two text nodes, x link only
      <<Cell(<<" ", "5", "2">>),
        Td(<<>>, <<TextNode(<<"Beta", " ">>), TextNode(<<"nad", TAB>>)>>),
        Td(<<>>, <<Anchor(<<"x">>, <<"?xobec=2">>)>>)>>,
      \* a row of headings in td cells
      <<Cell(<<"Obec">>), Cell(<<"Nazev">>)>>,
      \* a single cell
      <<Td(<<>>, <<Anchor(<<"5", "3">>, <<"ps311", "?xobec=1">>)>>)>>,
      \* numeric code, no link in the row
      <<Cell(<<"5", "4">>), Cell(<<"Gama">>)>>,
      \* code link without href, a named link to a results page
      <<Td(<<>>, <<AnchorNoHref(<<"5", "5">>)>>),
        Td(<<>>, <<Anchor(<<"Delta">>, <<"https://example.org/", "ps311", "?xobec=2">>)>>)>>,
      \* code link with an empty href, a link that leads elsewhere
      <<Td(<<>>, <<Anchor(<<"5", "6">>, <<>>)>>),
        Td(<<>>, <<Anchor(<<"Eta">>, <<"index", "?xvyber=1">>)>>)>>,
      \* the code link's text is no number
      <<Td(<<>>, <<Anchor(<<"a", "1">>, <<"ps311", "?xobec=1">>)>>), Cell(<<"Zeta">>)>>,
      \* plain code, the number link in the second cell
      <<Cell(<<"5", "7">>),
        Td(<<>>, <<Anchor(<<"7">>, <<"ps311", "?xobec=2">>)>>)>>,
      <<>> >>

ListPages == SeqsUpTo(ListRowPool, MaxListRows)

SummaryHeaders ==
    <<<< <<"", "sa2">> >>, << <<"", "sa3">> >>, << <<"", "sa6">> >>,
      << <<"t1", "sa2">> >>, <<>> >>

\* a page with one cell of the given headers and text, alone or before a
\* second cell with the same headers
SummaryPage(hs, t, twice) ==
    << <<Td(hs, <<TextNode(t)>>)>>
       \o (IF twice THEN <<Td(hs, <<TextNode(<<"7">>)>>)>> ELSE <<>>) >>

(***************************************************************************)
(* The pure functions, each called once on an input of its set.            *)
(***************************************************************************)
MainIdle ==
    /\ argc = 0 /\ munis = <<>> /\ party_cols = <<>> /\ rows = <<>>
    /\ header = <<>> /\ fetched = <<>>
    /\ file = [opened |-> FALSE, lines |-> <<>>]
    /\ exc = None /\ exit = <<>>

MainUnchanged ==
    UNCHANGED <<argc, munis, party_cols, rows, header, fetched, file, exc, exit>>

InitSummary ==
    /\ MainIdle /\ pc = "call" /\ ret = <<>>
    /\ \E i \in 1..Len(SummaryHeaders), t \in Texts, twice \in BOOLEAN :
          input = SummaryPage(SummaryHeaders[i], t, twice)

CallSummary ==
    /\ pc = "call" /\ pc' = "return"
    /\ ret' = <<parse_summary(input)>>
    /\ UNCHANGED input /\ MainUnchanged

SpecSummary == InitSummary /\ [][CallSummary]_vars

InitParties ==
    /\ MainIdle /\ pc = "call" /\ ret = <<>>
    /\ input \in PartyPages

CallParties ==
    /\ pc = "call" /\ pc' = "return"
    /\ ret' = <<parse_parties(input)>>
    /\ UNCHANGED input /\ MainUnchanged

SpecParties == InitParties /\ [][CallParties]_vars

InitMunis ==
    /\ MainIdle /\ pc = "call" /\ ret = <<>>
    /\ input \in ListPages

CallMunis ==
    /\ pc = "call" /\ pc' = "return"
    /\ ret' = <<parse_municipalities(input, UnitUrl)>>
    /\ UNCHANGED input /\ MainUnchanged

SpecMunis == InitMunis /\ [][CallMunis]_vars

(***************************************************************************)
(* scrape: the row of one municipality and the party columns.  A Python    *)
(* value is tagged with its type: <<"str", text>> or <<"int", n>>.         *)
(***************************************************************************)
PyStr(t) == <<"str", t>>
PyInt(n) == <<"int", n>>

FixedCols == << <<"code">>, <<"location">>, <<"registered">>, <<"envelopes">>, <<"valid">> >>

\* row[k] = v
SetItem(row, k, v) == [c \in DOMAIN row \cup {k} |-> IF c = k THEN v ELSE row[c]]

\* the loop "for _, pname, votes in parties": row[pname] = votes
RECURSIVE set_parties(_, _)
set_parties(row, parties) ==
    IF parties = <<>> THEN row
    ELSE set_parties(SetItem(row, Head(parties)[2], PyInt(Head(parties)[3])), Tail(parties))

build_row(m, doc) ==
    LET summary == parse_summary(doc)
        row == [c \in Range(FixedCols) |->
                   CASE c = <<"code">> -> PyStr(m.code)
                     [] c = <<"location">> -> PyStr(m.name)
                     [] c = <<"registered">> -> PyInt(summary.registered)
                     [] c = <<"envelopes">> -> PyInt(summary.envelopes)
                     [] c = <<"valid">> -> PyInt(summary.valid)]
    IN set_parties(row, parse_parties(doc))

\* a faulty variant: the party_seen test is dropped
RECURSIVE add_party_cols_unseen(_, _)
add_party_cols_unseen(cols, parties) ==
    IF parties = <<>> THEN cols
    ELSE add_party_cols_unseen(Append(cols, Head(parties)[2]), Tail(parties))

\* the loop "for _, pname, votes in parties": party_seen and party_cols
RECURSIVE add_party_cols(_, _)
add_party_cols(cols, parties) ==
    IF parties = <<>> THEN cols
    ELSE add_party_cols(IF Head(parties)[2] \in Range(cols) THEN cols
                        ELSE Append(cols, Head(parties)[2]),
                        Tail(parties))

(***************************************************************************)
(* write_csv: csv.DictWriter with its defaults restval="" and              *)
(* extrasaction="raise".                                                   *)
(***************************************************************************)
\* a faulty variant: no default is set
setdefaults_none(r, hdr) == r

\* for col in header: r.setdefault(col, 0)
setdefaults(r, hdr) ==
    [c \in DOMAIN r \cup Range(hdr) |-> IF c \in DOMAIN r THEN r[c] ELSE PyInt(0)]

\* DictWriter._dict_to_list: rowdict.keys() - fieldnames
wrong_fields(r, hdr) == DOMAIN r \ Range(hdr)

\* the text csv.writer writes for a value
csv_field(v) == IF v[1] = "int" THEN str(v[2]) ELSE v[2]

\* rowdict.get(key, restval) for key in fieldnames
dict_to_list(r, hdr) ==
    [j \in 1..Len(hdr) |-> IF hdr[j] \in DOMAIN r THEN csv_field(r[hdr[j]]) ELSE <<>>]

(***************************************************************************)
(* The run of main.                                                        *)
(***************************************************************************)
RequestExceptions == {"ConnectionError", "Timeout", "HTTPError"}

\* a faulty variant: the two except clauses give each other's code
except_exit_swapped(e) == IF e \in RequestExceptions THEN 3 ELSE 2

\* the except clauses of main
except_exit(e) == IF e \in RequestExceptions THEN 2 ELSE 3

SummaryRow(a, b, c) ==
    <<HCell(<<"", "sa2">>, a), HCell(<<"", "sa3">>, b), HCell(<<"", "sa6">>, c)>>

\* the listing pages the site may answer with
MainListPages ==
    {<<>>,
     <<ListRowPool[3], ListRowPool[1]>>,
     <<ListRowPool[1], ListRowPool[5], ListRowPool[2]>>,
     <<ListRowPool[2], ListRowPool[8]>>,
     <<ListRowPool[3], ListRowPool[4]>>}

\* the detail pages the site may answer with
DetailPages ==
    {<<SummaryRow(<<"1", NBSP, "0", "0", "0">>, <<"9", "0", "0">>, <<"8", "9", "0">>),
       PartyRow(<<"1">>, <<"A">>, <<"5", "0", "0">>),
       PartyRow(<<"2">>, <<"B">>, <<"3", "9", "0">>)>>,
     <<SummaryRow(<<"2", "0">>, <<"1", "0">>, <<"9">>),
       PartyRow(<<"1">>, <<"A">>, <<"9">>)>>,
     <<PartyRow(<<"2">>, <<"B">>, <<"3">>),
       PartyRow(<<"1">>, <<"A">>, <<"4">>),
       PartyRow(<<"2">>, <<"B">>, <<"3">>)>>,
     <<SummaryRow(<<"7">>, <<"6">>, <<"5">>),
       PartyRow(<<"3">>, <<"valid">>, <<"2">>)>>,
     <<>>}

\* fetch_soup: the parsed page, or the requests exception raised
FetchOutcomes(pages) ==
    {[exc |-> e, soup |-> <<>>] : e \in RequestExceptions}
    \cup {[exc |-> None, soup |-> p] : p \in pages}

Init ==
    /\ pc = "main"
    /\ argc \in 1..MaxArgc
    /\ munis = <<>> /\ party_cols = <<>> /\ rows = <<>> /\ header = <<>>
    /\ fetched = <<>>
    /\ file = [opened |-> FALSE, lines |-> <<>>]
    /\ exc = None /\ exit = <<>>
    /\ input = <<>> /\ ret = <<>>

\* "if len(argv) != 3: ... return 1"
Main ==
    /\ pc = "main"
    /\ IF argc # 3 THEN pc' = "exit" /\ exit' = <<1>>
       ELSE pc' = "parse_municipalities" /\ UNCHANGED exit
    /\ UNCHANGED <<argc, munis, party_cols, rows, header, fetched, file, exc, input, ret>>

\* munis = parse_municipalities(unit_url): the fetch and the parse
ParseMunicipalities ==
    /\ pc = "parse_municipalities"
    /\ \E resp \in FetchOutcomes(MainListPages) :
          /\ fetched' = Append(fetched, [url |-> UnitUrl, resp |-> resp])
          /\ IF resp.exc # None
             THEN pc' = "except" /\ exc' = resp.exc /\ UNCHANGED munis
             ELSE LET r == parse_municipalities(resp.soup, UnitUrl)
                  IN IF r.exc # None
                     THEN pc' = "except" /\ exc' = r.exc /\ UNCHANGED munis
                     ELSE pc' = "scrape" /\ munis' = r.val /\ UNCHANGED exc
    /\ UNCHANGED <<argc, party_cols, rows, header, file, exit, input, ret>>

\* a faulty variant: a failed detail fetch is tried again
ScrapeStepRetry ==
    /\ pc = "scrape" /\ Len(rows) < Len(munis)
    /\ LET m == munis[Len(rows) + 1]
       IN \E resp \in FetchOutcomes(DetailPages) :
             /\ fetched' = Append(fetched, [url |-> m.link, resp |-> resp])
             /\ IF resp.exc # None
                THEN UNCHANGED <<pc, exc, rows, party_cols>>
                ELSE /\ rows' = Append(rows, build_row(m, resp.soup))
                     /\ party_cols' = add_party_cols(party_cols, parse_parties(resp.soup))
                     /\ UNCHANGED <<pc, exc>>
    /\ UNCHANGED <<argc, munis, header, file, exit, input, ret>>

\* one iteration of "for code, name, detail_url in munis"
ScrapeStep ==
    /\ pc = "scrape" /\ Len(rows) < Len(munis)
    /\ LET m == munis[Len(rows) + 1]
       IN \E resp \in FetchOutcomes(DetailPages) :
             /\ fetched' = Append(fetched, [url |-> m.link, resp |-> resp])
             /\ IF resp.exc # None
                THEN pc' = "except" /\ exc' = resp.exc /\ UNCHANGED <<rows, party_cols>>
                ELSE /\ rows' = Append(rows, build_row(m, resp.soup))
                     /\ party_cols' = add_party_cols(party_cols, parse_parties(resp.soup))
                     /\ UNCHANGED <<pc, exc>>
    /\ UNCHANGED <<argc, munis, header, file, exit, input, ret>>

\* a faulty variant: the return is inside the loop
ScrapeReturnInLoop ==
    /\ pc = "scrape" /\ Len(rows) >= 1
    /\ header' = FixedCols \o party_cols
    /\ pc' = "write_csv"
    /\ UNCHANGED <<argc, munis, party_cols, rows, fetched, file, exc, exit, input, ret>>

\* the end of the loop: header = [...] + party_cols; return header, rows
ScrapeReturn ==
    /\ pc = "scrape" /\ Len(rows) = Len(munis)
    /\ header' = FixedCols \o party_cols
    /\ pc' = "write_csv"
    /\ UNCHANGED <<argc, munis, party_cols, rows, fetched, file, exc, exit, input, ret>>

IOOutcomes == {None, "OSError"}

\* open(path, "w", ...): the file is created or truncated
WriteOpen ==
    /\ pc = "write_csv"
    /\ \E io \in IOOutcomes :
          IF io # None THEN pc' = "except" /\ exc' = io /\ UNCHANGED file
          ELSE /\ file' = [opened |-> TRUE, lines |-> <<>>]
               /\ pc' = "writeheader" /\ UNCHANGED exc
    /\ UNCHANGED <<argc, munis, party_cols, rows, header, fetched, exit, input, ret>>

\* w.writeheader()
WriteHeader ==
    /\ pc = "writeheader"
    /\ \E io \in IOOutcomes :
          IF io # None THEN pc' = "except" /\ exc' = io /\ UNCHANGED file
          ELSE /\ file' = [file EXCEPT !.lines = Append(@, header)]
               /\ pc' = "writerows" /\ UNCHANGED exc
    /\ UNCHANGED <<argc, munis, party_cols, rows, header, fetched, exit, input, ret>>

\* one iteration of "for r in rows": the setdefault loop and w.writerow(r)
WriteRow ==
    /\ pc = "writerows" /\ Len(file.lines) - 1 < Len(rows)
    /\ LET k == Len(file.lines)
           r == setdefaults(rows[k], header)
       IN /\ rows' = [rows EXCEPT ![k] = r]
          /\ \E io \in IOOutcomes :
                IF wrong_fields(r, header) # {}
                THEN pc' = "except" /\ exc' = "ValueError" /\ UNCHANGED file
                ELSE IF io # None THEN pc' = "except" /\ exc' = io /\ UNCHANGED file
                ELSE /\ file' = [file EXCEPT !.lines = Append(@, dict_to_list(r, header))]
                     /\ UNCHANGED <<pc, exc>>
    /\ UNCHANGED <<argc, munis, party_cols, header, fetched, exit, input, ret>>

\* the end of the with block
WriteClose ==
    /\ pc = "writerows" /\ Len(file.lines) - 1 = Len(rows)
    /\ pc' = "written"
    /\ UNCHANGED <<argc, munis, party_cols, rows, header, fetched, file, exc, exit, input, ret>>

\* print("Hotovo: ..."); return 0
MainReturn ==
    /\ pc = "written"
    /\ pc' = "exit" /\ exit' = <<0>>
    /\ UNCHANGED <<argc, munis, party_cols, rows, header, fetched, file, exc, input, ret>>

\* except requests.RequestException: return 2; except Exception: return 3
MainExcept ==
    /\ pc = "except"
    /\ pc' = "exit" /\ exit' = <<except_exit(exc)>>
    /\ UNCHANGED <<argc, munis, party_cols, rows, header, fetched, file, exc, input, ret>>

Next ==
    \/ Main \/ ParseMunicipalities \/ ScrapeStep \/ ScrapeReturn
    \/ WriteOpen \/ WriteHeader \/ WriteRow \/ WriteClose
    \/ MainReturn \/ MainExcept

Spec == Init /\ [][Next]_vars

(***************************************************************************)
(* write_csv called on a header and rows of its own input sets.            *)
(***************************************************************************)
WriterHeaders ==
    << << <<"code">>, <<"A">> >>, << <<"code">>, <<"A">>, <<"B">> >>, << <<"code">> >> >>

WriterRowPool ==
    <<[c \in {<<"code">>, <<"A">>} |-> IF c = <<"code">> THEN PyStr(<<"5", "1">>) ELSE PyInt(5)],
      [c \in {<<"code">>} |-> PyStr(<<"5", "2">>)],
      [c \in {<<"code">>, <<"A">>, <<"B">>} |->
          IF c = <<"code">> THEN PyStr(<<"5", "3">>) ELSE PyInt(12)],
      [c \in {<<"code">>, <<"A">>, <<"B">>, <<"C">>} |->
          IF c = <<"code">> THEN PyStr(<<"5", "4">>) ELSE PyInt(7)],
      [c \in {<<"A">>, <<"C">>} |-> PyInt(3)]>>

InitWriter ==
    /\ pc = "write_csv"
    /\ argc = 3
    /\ munis = <<>> /\ party_cols = <<>> /\ fetched = <<>>
    /\ \E h \in 1..Len(WriterHeaders) : header = WriterHeaders[h]
    /\ rows \in SeqsUpTo(WriterRowPool, MaxWriteRows)
    /\ input = rows
    /\ file = [opened |-> FALSE, lines |-> <<>>]
    /\ exc = None /\ exit = <<>> /\ ret = <<>>

NextWriter == WriteOpen \/ WriteHeader \/ WriteRow \/ WriteClose

SpecWriter == InitWriter /\ [][NextWriter]_vars

(***************************************************************************)
(* Properties of the run of main (Spec).                                   *)
(***************************************************************************)
FetchOk(i) == fetched[i].resp.exc = None
DetailDoc(k) == fetched[k + 1].resp.soup
TransportFailed ==
    \E i \in 1..Len(fetched) :
        fetched[i].resp.exc \in {"ConnectionError", "Timeout", "HTTPError"}
WriteCompleted ==
    /\ file.opened /\ Len(file.lines) = 1 + Len(rows)
    /\ munis # <<>> /\ Len(rows) = Len(munis)

\* C1: the output file is opened only after the listing fetch, the listing
\* parse and every municipality's detail fetch and parse have succeeded; a
\* run in which one of them failed ends with the file never opened.
C1_WriterAfterScrape ==
    /\ file.opened =>
          /\ munis # <<>>
          /\ Len(fetched) = 1 + Len(munis)
          /\ \A i \in 1..Len(fetched) : FetchOk(i)
          /\ Len(rows) = Len(munis)
          /\ pc \in {"writeheader", "writerows", "written", "except", "exit"}
    /\ (pc = "exit" /\ (TransportFailed \/ (argc = 3 /\ munis = <<>>))) =>
          ~file.opened /\ file.lines = <<>>

C1_Witness ==
    /\ pc = "exit" /\ exit = <<0>>
    /\ Len(munis) = 2 /\ Len(file.lines) = 3

\* C2: the exit code is 1 exactly for a wrong argument count (nothing
\* fetched, nothing written), 2 exactly for a transport failure of the
\* listing fetch or of a detail fetch, 3 exactly for any other failure (a
\* listing without municipalities, a failure while writing), and 0 only
\* when scrape and the write both completed.
C2_ExitCodes ==
    pc = "exit" =>
       /\ exit \in {<<0>>, <<1>>, <<2>>, <<3>>}
       /\ (exit = <<1>>) <=> (argc # 3)
       /\ (argc # 3) => fetched = <<>> /\ ~file.opened
       /\ (exit = <<2>>) <=> TransportFailed
       /\ (exit = <<3>>) <=> (argc = 3 /\ ~TransportFailed /\ exc \in {"ValueError", "OSError"})
       /\ (exit = <<3>> /\ exc = "ValueError") => munis = <<>> /\ Len(fetched) = 1
       /\ (exit = <<3>> /\ exc = "OSError") => Len(rows) = Len(munis) /\ ~WriteCompleted
       /\ (exit = <<0>>) => WriteCompleted /\ exc = None
                            /\ \A i \in 1..Len(fetched) : FetchOk(i)

C2_Witness ==
    /\ pc = "exit" /\ exit = <<2>>
    /\ Len(fetched) = 3 /\ fetched[3].resp.exc = "HTTPError"

\* C3: the fetches of a run are one fetch of the listing URL, then the
\* detail URLs of the parsed municipalities in listing order, each once; a
\* failed fetch is the last fetch of the run; no detail fetch happens before
\* the listing fetch succeeded.
C3_FetchSequence ==
    /\ fetched # <<>> => fetched[1].url = UnitUrl
    /\ (argc = 3 /\ pc \notin {"main", "parse_municipalities"}) => fetched # <<>>
    /\ \A i \in 1..(Len(fetched) - 1) : FetchOk(i)
    /\ Len(fetched) >= 2 =>
          /\ munis = parse_municipalities(fetched[1].resp.soup, UnitUrl).val
          /\ Len(fetched) <= 1 + Len(munis)
          /\ \A k \in 1..(Len(fetched) - 1) : fetched[k + 1].url = munis[k].link
    /\ pc \in {"write_csv", "writeheader", "writerows", "written"} =>
          Len(fetched) = 1 + Len(munis)
    /\ exit = <<0>> => Len(fetched) = 1 + Len(munis)

C3_Witness ==
    /\ pc = "exit" /\ Len(munis) = 2
    /\ Len(fetched) = 2 /\ ~FetchOk(2)
    /\ munis[1].link # munis[2].link

\* C4: on success there is one row per municipality, in listing order, and
\* whatever the party names of the detail page its fixed columns hold the
\* municipality's code and name and the three values of parse_summary.
C4_FixedColumns ==
    /\ pc \in {"write_csv", "writeheader", "writerows", "written"} => Len(rows) = Len(munis)
    /\ \A k \in 1..Len(rows) :
          LET summary == parse_summary(DetailDoc(k))
          IN /\ rows[k][<<"code">>] = PyStr(munis[k].code)
             /\ rows[k][<<"location">>] = PyStr(munis[k].name)
             /\ rows[k][<<"registered">>] = PyInt(summary.registered)
             /\ rows[k][<<"envelopes">>] = PyInt(summary.envelopes)
             /\ rows[k][<<"valid">>] = PyInt(summary.valid)

\* the party names of the municipalities processed so far, in processing order
SeenNames ==
    Flatten([k \in 1..Len(rows) |->
                LET ps == parse_parties(DetailDoc(k)) IN [i \in 1..Len(ps) |-> ps[i][2]]])
FirstIndex(s, x) == CHOOSE i \in 1..Len(s) : s[i] = x /\ \A j \in 1..(i - 1) : s[j] # x

\* C5: the party columns hold every party name of every processed
\* municipality's party list, each once, in the order of first occurrence;
\* the header is the five fixed columns followed by them, and no key of a
\* row is missing from it.
C5_HeaderUnion ==
    /\ \A i, j \in 1..Len(party_cols) : party_cols[i] = party_cols[j] => i = j
    /\ Range(party_cols) = Range(SeenNames)
    /\ \A i, j \in 1..Len(party_cols) :
          i < j => FirstIndex(SeenNames, party_cols[i]) < FirstIndex(SeenNames, party_cols[j])
    /\ header # <<>> =>
          /\ header = << <<"code">>, <<"location">>, <<"registered">>, <<"envelopes">>,
                         <<"valid">> >> \o party_cols
          /\ Len(rows) = Len(munis)
          /\ \A k \in 1..Len(rows) : DOMAIN rows[k] \subseteq Range(header)

C5_Witness ==
    /\ pc = "exit" /\ exit = <<0>> /\ Len(rows) = 2
    /\ Len(party_cols) = 2
    /\ Len(parse_parties(DetailDoc(1))) = 1
    /\ parse_parties(DetailDoc(2))[1][2] # parse_parties(DetailDoc(1))[1][2]

\* C6: every written row has as many fields as the header, and its cell for
\* a header column is the row's own value for that column if the row has
\* one and 0 otherwise.
C6_WrittenCells ==
    file.opened =>
       /\ Len(file.lines) >= 1 => file.lines[1] = header
       /\ \A k \in 1..(Len(file.lines) - 1) :
             LET own == build_row(munis[k], DetailDoc(k))
                 line == file.lines[k + 1]
             IN /\ Len(line) = Len(header)
                /\ \A j \in 1..Len(header) :
                      line[j] = IF header[j] \in DOMAIN own
                                THEN (IF own[header[j]][1] = "int"
                                      THEN str(own[header[j]][2]) ELSE own[header[j]][2])
                                ELSE <<"0">>

C6_Witness ==
    /\ Len(file.lines) = 3
    /\ \E j \in 1..Len(header) :
          /\ header[j] \notin DOMAIN build_row(munis[2], DetailDoc(2))
          /\ header[j] \in DOMAIN build_row(munis[1], DetailDoc(1))
          /\ file.lines[3][j] = <<"0">>

(***************************************************************************)
(* Properties of write_csv (SpecWriter); input holds the rows as passed.   *)
(***************************************************************************)
\* C8: for rows whose key sets are supersets of the header, write_csv
\* completes without error and writes only the header's columns of each row.
C8_ExtraFieldsIgnored ==
    (\A k \in 1..Len(input) : Range(header) \subseteq DOMAIN input[k]) =>
       /\ exc # "ValueError"
       /\ pc = "written" =>
             \A k \in 1..Len(input) :
                file.lines[k + 1] = [j \in 1..Len(header) |-> csv_field(input[k][header[j]])]

(***************************************************************************)
(* Properties of parse_parties (SpecParties).                              *)
(***************************************************************************)
C7_Found(tr) ==
    LET f == row_fields(tr)
    IN f.pno # <<>> /\ f.votes # <<>> /\ f.pname # <<>> /\ f.pname[1] # <<>>
C7_Entry(tr) ==
    LET f == row_fields(tr) IN <<f.pno[1], f.pname[1], f.votes[1]>>

\* C7: the result's party numbers are strictly ascending; it holds one
\* entry for each party number of a row in which number, name and votes
\* were found, and that entry is the one of the first such row.
C7_FirstOccurrenceSorted ==
    pc = "return" =>
       LET out == ret[1]
           found == {i \in 1..Len(input) : C7_Found(input[i])}
       IN /\ \A k \in 1..(Len(out) - 1) : out[k][1] < out[k + 1][1]
          /\ {out[k][1] : k \in 1..Len(out)} = {C7_Entry(input[i])[1] : i \in found}
          /\ \A k \in 1..Len(out) :
                \E i \in found :
                   /\ out[k] = C7_Entry(input[i])
                   /\ \A j \in found : C7_Entry(input[j])[1] = out[k][1] => i <= j

C7_Witness ==
    /\ pc = "return" /\ Len(ret[1]) = 2
    /\ \E i, j \in 1..Len(input) :
          /\ i < j /\ C7_Found(input[i]) /\ C7_Found(input[j])
          /\ C7_Entry(input[i])[1] = C7_Entry(input[j])[1]
          /\ C7_Entry(input[i]) # C7_Entry(input[j])
          /\ C7_Entry(input[i])[1] > ret[1][1][1]

(***************************************************************************)
(* Properties of parse_municipalities (SpecMunis).                         *)
(***************************************************************************)
C9_Code(tr) ==
    LET as == SelectSeq(tr[1].nodes, LAMBDA n : n.tag = "a")
    IN IF as # <<>> THEN strip(as[1].text) ELSE get_text(tr[1].nodes, <<>>)
C9_Kept(tr) ==
    /\ Len(tr) >= 2
    /\ C9_Code(tr) # <<>>
    /\ \A i \in 1..Len(C9_Code(tr)) :
          C9_Code(tr)[i] \in {"0", "1", "2", "3", "4", "5", "6", "7", "8", "9"}
    /\ find_muni_link(tr, UnitUrl) # <<>>

SummaryKeys == <<"sa2", "sa3", "sa6">>
SummaryValues(r) == <<r.registered, r.envelopes, r.valid>>
\* the cells that carry the identifier, in document order
C10_Cells(id) == SelectSeq(Flatten(input), LAMBDA td : <<"", id>> \in Range(td.headers))
C10_Text(id) == get_text(C10_Cells(id)[1].nodes, <<>>)
C10_DigitsValue(t) ==
    LET d == SelectSeq(t, LAMBDA c : c \in Digits) IN IF d = <<>> THEN 0 ELSE int(d)
\* the text, without its spaces and non-breaking spaces, has a comma and
\* apart from commas only decimal digits, at least one
C10_DecimalComma(t) ==
    LET u == SelectSeq(t, LAMBDA c : c \notin {" ", NBSP})
    IN /\ \E i \in 1..Len(u) : u[i] = ","
       /\ \E i \in 1..Len(u) : u[i] \in Digits
       /\ \A i \in 1..Len(u) : u[i] = "," \/ u[i] \in Digits
C10_BeforeComma(t) ==
    LET u == SelectSeq(t, LAMBDA c : c \notin {" ", NBSP})
        c1 == CHOOSE i \in 1..Len(u) : u[i] = "," /\ \A j \in 1..(i - 1) : u[j] # ","
    IN SubSeq(u, 1, c1 - 1)

====
